---- MODULE Spec2Model ----
(***************************************************************************)
(* Model of backend.py of the customer analytics dashboard: the identifier *)
(* sanitizer, the ingestion of a DataFrame into a PostgreSQL table         *)
(* (DROP / CREATE / COPY, each followed by a commit), the two read paths   *)
(* and the metrics functions.                                              *)
(*                                                                         *)
(* Text is modelled as a sequence of one-character strings, so that the    *)
(* sanitizer, DataFrame.to_csv and COPY ... FROM STDIN work on characters. *)
(***************************************************************************)
EXTENDS Integers, Sequences, FiniteSets, TLC

VARIABLES
    db,         \* committed contents of the database: table name -> table
    pc,         \* per thread: the statement of backend.py it is about to run
    op,         \* per thread: the public function being called
    arg,        \* per thread: the arguments of the call
    conn,       \* per thread: the local `conn` ("none", "open", "closed")
    cursor,     \* per thread: the local `cursor` ("unbound", "open", "closed")
    txn,        \* per thread: the connection's open transaction, if any
    todo,       \* per thread: the records of the COPY stream not yet loaded
    ret,        \* per thread: what the call returns or raises
    failedAt,   \* per thread: the statement that raised inside the try block
    prior,      \* per thread: db as it was when the call started (history)
    last,       \* the ingestion a running get_all_data follows (history)
    openConns,  \* number of connections that are open on the server
    fnIn,       \* input of the pure function under test (a name)
    fnOut,      \* its output
    mIn,        \* input DataFrame of the metrics functions
    mOut        \* their output

vars == <<db, pc, op, arg, conn, cursor, txn, todo, ret, failedAt, prior,
          last, openConns, fnIn, fnOut, mIn, mOut>>

storeVars == <<db, pc, op, arg, conn, cursor, txn, todo, ret, failedAt,
               prior, last, openConns>>

(***************************************************************************)
(* Bounds of the model.                                                    *)
(***************************************************************************)
MaxNameLen == 3

MaxRows == 2

MaxStmts == 2

MaxOpenConns == 2

MaxMetricRows == 2

(***************************************************************************)
(* Characters.                                                             *)
(***************************************************************************)
TAB == "\t"

NL == "\n"

QUOTE == "\""

Digits == {"0", "1", "5"}

LowerLetters == {"a", "b", "t", "x", "y"}

\* The characters the regular expression [^a-z0-9_] of line 34 keeps.
AllowedChars == LowerLetters \cup Digits \cup {"_"}

\* All sequences over S of length at most n.
BSeq(S, n) == UNION {[1..k -> S] : k \in 0..n}

(***************************************************************************)
(* sanitize_column_name, backend.py lines 31-35.                           *)
(***************************************************************************)
\* str.lower() on the characters of the model's alphabet.
Lower(c) ==
    CASE c = "A" -> "a"
      [] c = "B" -> "b"
      [] c = "T" -> "t"
      [] OTHER -> c

\* col_name.lower().replace(' ', '_'), one character.
LowerNoSpace(c) == IF Lower(c) = " " THEN "_" ELSE Lower(c)

KeepAllowed(c) == c \in AllowedChars

\* re.sub(r'[^a-z0-9_]', '', col_name) after line 33.
CleanName(s) ==
    SelectSeq([i \in 1..Len(s) |-> LowerNoSpace(s[i])], KeepAllowed)

\* The f-string of line 35: the cleaned name between double quotes.
sanitize_column_name(s) == <<QUOTE>> \o CleanName(s) \o <<QUOTE>>

RECURSIVE LStrip(_)
LStrip(s) == IF s # <<>> /\ Head(s) = QUOTE THEN LStrip(Tail(s)) ELSE s

RECURSIVE RStrip(_)
RStrip(s) ==
    IF s # <<>> /\ s[Len(s)] = QUOTE THEN RStrip(SubSeq(s, 1, Len(s) - 1))
    ELSE s

\* str.strip('"'): every leading and trailing double quote is removed.
StripQuotes(s) == RStrip(LStrip(s))

(***************************************************************************)
(* The metrics functions, backend.py lines 130-190.  A DataFrame is a set  *)
(* of column names and a sequence of rows, each row a function from the    *)
(* column names to values.  purchase_date is a whole number of days (the   *)
(* frontend converts the column with pd.to_datetime).  The results are the *)
(* exact quotients <<numerator, denominator>> before they are formatted.   *)
(***************************************************************************)
ChurnWindowDays == 365

Required == {"customer_id", "purchase_date", "purchase_amount"}

CustomerIds == {1, 2}

PurchaseDates == {0, 35, 400}

PurchaseAmounts == {10, 20}

ColValues(c) ==
    CASE c = "customer_id" -> CustomerIds
      [] c = "purchase_date" -> PurchaseDates
      [] OTHER -> PurchaseAmounts

MetricRows(cs) ==
    {r \in [cs -> CustomerIds \cup PurchaseDates \cup PurchaseAmounts] :
        \A c \in cs : r[c] \in ColValues(c)}

MetricDatasets ==
    UNION {{[columns |-> cs, rows |-> rs] :
                rs \in BSeq(MetricRows(cs), MaxMetricRows)} :
           cs \in SUBSET Required}

\* The sum and the product of f[x] over the x of S.
RECURSIVE SetSum(_, _)
SetSum(S, f) ==
    IF S = {} THEN 0
    ELSE LET x == CHOOSE y \in S : TRUE
         IN f[x] + SetSum(S \ {x}, f)

RECURSIVE SetProd(_, _)
SetProd(S, f) ==
    IF S = {} THEN 1
    ELSE LET x == CHOOSE y \in S : TRUE
         IN f[x] * SetProd(S \ {x}, f)

SetMax(S) == CHOOSE x \in S : \A y \in S : y <= x

SetMin(S) == CHOOSE x \in S : \A y \in S : x <= y

\* DataFrame.empty: either axis has length 0.
IsEmpty(df) == Len(df.rows) = 0 \/ df.columns = {}

\* The columns get_key_metrics subscripts, in the order it reaches them.
KpiColumns == <<"customer_id", "purchase_amount", "purchase_date">>

\* A plausible slip: get_business_insights reads purchase_date as well.
InsightColumnsAll == <<"customer_id", "purchase_amount", "purchase_date">>

\* The columns get_business_insights subscripts, in order.
InsightColumns == <<"customer_id", "purchase_amount">>

\* df[col] raises KeyError for the first column of `order` the frame lacks.
FirstMissing(df, order) ==
    LET miss == SelectSeq(order, LAMBDA c : c \notin df.columns)
    IN IF miss = <<>> THEN "" ELSE Head(miss)

RowIdx(df) == 1..Len(df.rows)

Col(df, c) == {df.rows[i][c] : i \in RowIdx(df)}

RowsOf(df, cust) == {i \in RowIdx(df) : df.rows[i]["customer_id"] = cust}

\* df[df['purchase_date'] < latest_date - Timedelta(days=365)]
\*   ['customer_id'].nunique(), lines 155-156.
ChurnedCustomers(df) ==
    LET latest_date == SetMax(Col(df, "purchase_date"))
    IN {df.rows[i]["customer_id"] :
           i \in {j \in RowIdx(df) :
                     df.rows[j]["purchase_date"]
                         < latest_date - ChurnWindowDays}}

NoMetrics ==
    [fn |-> "none", kind |-> "none", key |-> "", churned |-> 0,
     total_customers |-> 0, LTV |-> <<0, 1>>, CAC |-> <<0, 1>>,
     Churn_Rate |-> <<0, 1>>, Total_Revenue |-> 0,
     Average_Purchase_Amount |-> <<0, 1>>, Min_Purchase |-> 0,
     Max_Purchase |-> 0]

get_key_metrics(df) ==
    LET base == [NoMetrics EXCEPT !.fn = "get_key_metrics"]
    IN
    IF IsEmpty(df) THEN [base EXCEPT !.kind = "defaults"]
    ELSE IF FirstMissing(df, KpiColumns) # ""
    THEN [base EXCEPT !.kind = "KeyError",
                      !.key = FirstMissing(df, KpiColumns)]
    ELSE
    LET custs == Col(df, "customer_id")
        total_customers == Cardinality(custs)
        Amount == [i \in RowIdx(df) |-> df.rows[i]["purchase_amount"]]
        total_revenue == SetSum(RowIdx(df), Amount)
        Count == [c \in custs |-> Cardinality(RowsOf(df, c))]
        AllCounts == SetProd(custs, Count)
        \* groupby('customer_id')['purchase_amount'].mean().mean()
        Scaled == [c \in custs |->
                     SetSum(RowsOf(df, c), Amount) * (AllCounts \div Count[c])]
        avgNum == SetSum(custs, Scaled)
        avgDen == AllCounts * total_customers
        customer_lifespan_days ==
            SetMax(Col(df, "purchase_date")) - SetMin(Col(df, "purchase_date"))
        churned_customers == Cardinality(ChurnedCustomers(df))
    IN [base EXCEPT
          !.kind = "metrics",
          !.total_customers = total_customers,
          !.churned = churned_customers,
          !.LTV = <<avgNum * Len(df.rows) * customer_lifespan_days,
                    avgDen * total_customers * 365>>,
          !.CAC = <<total_revenue, total_customers>>,
          !.Churn_Rate = <<churned_customers * 100, total_customers>>]

get_business_insights(df) ==
    LET base == [NoMetrics EXCEPT !.fn = "get_business_insights"]
    IN
    IF IsEmpty(df) THEN [base EXCEPT !.kind = "empty"]
    ELSE IF FirstMissing(df, InsightColumns) # ""
    THEN [base EXCEPT !.kind = "KeyError",
                      !.key = FirstMissing(df, InsightColumns)]
    ELSE
    LET Amount == [i \in RowIdx(df) |-> df.rows[i]["purchase_amount"]]
        total_revenue == SetSum(RowIdx(df), Amount)
    IN [base EXCEPT
          !.kind = "insights",
          !.total_customers = Cardinality(Col(df, "customer_id")),
          !.Total_Revenue = total_revenue,
          !.Average_Purchase_Amount = <<total_revenue, Len(df.rows)>>,
          !.Min_Purchase = SetMin(Col(df, "purchase_amount")),
          !.Max_Purchase = SetMax(Col(df, "purchase_amount"))]

(***************************************************************************)
(* DataFrames handed to ingest_csv_data.  A column is a header and a       *)
(* pandas dtype; a cell is the text to_csv writes for it, or NaN.          *)
(***************************************************************************)
NaN == <<"NaN">>

Col1(h, d) == <<[header |-> h, dtype |-> d]>>

ColumnLists ==
    { Col1(<<"a">>, "object"),
      Col1(<<"!">>, "int64"),
      Col1(<<"a">>, "int64") \o Col1(<<"A">>, "int64"),
      Col1(<<"A", " ", "b">>, "int64") \o Col1(<<"x">>, "float64") }

CellsOf(dtype) ==
    CASE dtype = "object" -> {<<"x">>, <<NL>>}
      [] dtype = "int64" -> {<<"1">>}
      [] dtype = "float64" -> {<<"1", ".", "5">>, NaN}
      [] OTHER -> {}

AllCells == UNION {CellsOf(d) : d \in {"object", "int64", "float64"}}

RowsFor(c) ==
    {row \in [1..Len(c) -> AllCells] :
        \A i \in 1..Len(c) : row[i] \in CellsOf(c[i].dtype)}

Datasets ==
    UNION {{[cols |-> c, rows |-> r] : r \in BSeq(RowsFor(c), MaxRows)} :
           c \in ColumnLists}

NoDf == [cols |-> <<>>, rows |-> <<>>]

\* The table_name arguments of the calls.
TableNames == {<<"T">>, <<"!">>}

(***************************************************************************)
(* infer_sql_type, backend.py lines 37-48.                                 *)
(***************************************************************************)
infer_sql_type(dtype) ==
    IF dtype \in {"int64", "float64"}
    THEN IF dtype = "int64" THEN "INTEGER" ELSE "DECIMAL"
    ELSE IF dtype = "datetime64" THEN "TIMESTAMP"
    ELSE "TEXT"

(***************************************************************************)
(* DataFrame.to_csv(buffer, index=False, header=False, sep='\t'), line 84: *)
(* csv.writer with QUOTE_MINIMAL.  A field that holds the separator, the   *)
(* quote character or a line break is written between double quotes with   *)
(* its quotes doubled; NaN is written as the empty field.                  *)
(***************************************************************************)
RECURSIVE Flatten(_)
Flatten(ss) == IF ss = <<>> THEN <<>> ELSE Head(ss) \o Flatten(Tail(ss))

NeedsQuote(f) == \E i \in 1..Len(f) : f[i] \in {TAB, NL, QUOTE}

DoubleQuotes(f) ==
    Flatten([i \in 1..Len(f) |-> IF f[i] = QUOTE THEN <<QUOTE, QUOTE>>
                                 ELSE <<f[i]>>])

CsvField(cell) ==
    IF cell = NaN THEN <<>>
    ELSE IF NeedsQuote(cell) THEN <<QUOTE>> \o DoubleQuotes(cell) \o <<QUOTE>>
    ELSE cell

CsvRow(row) ==
    Flatten([i \in 1..Len(row) |->
                IF i = 1 THEN CsvField(row[i]) ELSE <<TAB>> \o CsvField(row[i])])
    \o <<NL>>

to_csv(df) == Flatten([i \in 1..Len(df.rows) |-> CsvRow(df.rows[i])])

(***************************************************************************)
(* cursor.copy_from(buffer, table, sep='\t'), line 87: COPY table FROM     *)
(* STDIN in text format.  Every line break ends a record and every tab     *)
(* ends a field; double quotes are ordinary characters.  A record with the *)
(* wrong number of fields, or a field its column's type rejects, aborts    *)
(* the statement.                                                          *)
(***************************************************************************)
\* The index of the first `sep` in s, or 0.
FirstAt(s, sep) ==
    IF \E i \in 1..Len(s) : s[i] = sep
    THEN CHOOSE i \in 1..Len(s) : s[i] = sep /\ \A j \in 1..(i - 1) : s[j] # sep
    ELSE 0

RECURSIVE Split(_, _)
Split(s, sep) ==
    IF FirstAt(s, sep) = 0 THEN <<s>>
    ELSE <<SubSeq(s, 1, FirstAt(s, sep) - 1)>>
         \o Split(SubSeq(s, FirstAt(s, sep) + 1, Len(s)), sep)

\* The first record of a non-empty stream and the stream after it.
FirstLine(buf) ==
    IF FirstAt(buf, NL) = 0 THEN buf ELSE SubSeq(buf, 1, FirstAt(buf, NL) - 1)

RestLines(buf) ==
    IF FirstAt(buf, NL) = 0 THEN <<>>
    ELSE SubSeq(buf, FirstAt(buf, NL) + 1, Len(buf))

IsNumber(f, chars) == f # <<>> /\ \A i \in 1..Len(f) : f[i] \in chars

FieldOk(type, f) ==
    CASE type = "INTEGER" -> IsNumber(f, Digits)
      [] type = "DECIMAL" -> IsNumber(f, Digits \cup {"."})
      [] type = "TIMESTAMP" -> IsNumber(f, Digits \cup {"-"})
      [] OTHER -> TRUE

RecordOk(cols, line) ==
    LET fields == Split(line, TAB)
    IN /\ Len(fields) = Len(cols)
       /\ \A i \in 1..Len(cols) : FieldOk(cols[i].type, fields[i])

\* A plausible slip: a record the table rejects is skipped, not an error.
CopyStepLenient(cols, rows, line) ==
    IF RecordOk(cols, line)
    THEN [ok |-> TRUE, rows |-> Append(rows, Split(line, TAB))]
    ELSE [ok |-> TRUE, rows |-> rows]

\* COPY loads one record into the table's rows, or raises.
CopyStep(cols, rows, line) ==
    IF RecordOk(cols, line)
    THEN [ok |-> TRUE, rows |-> Append(rows, Split(line, TAB))]
    ELSE [ok |-> FALSE, rows |-> rows]

\* Every record of a stream, as COPY splits it.
RECURSIVE CopyRecords(_)
CopyRecords(buf) ==
    IF buf = <<>> THEN <<>>
    ELSE <<Split(FirstLine(buf), TAB)>> \o CopyRecords(RestLines(buf))

(***************************************************************************)
(* The database.  A table is its column definitions and its rows; a name   *)
(* with no table maps to NoTable.                                          *)
(***************************************************************************)
StoreNames == {<<"t">>}

NoTable == [exists |-> FALSE, cols |-> <<>>, rows |-> <<>>]

EmptyDb == [n \in StoreNames |-> NoTable]

\* An unquoted identifier: not empty, not starting with a digit.
ValidIdent(name) == name # <<>> /\ name[1] \notin Digits

\* The identifier a quoted name denotes.
Unquoted(q) == SubSeq(q, 2, Len(q) - 1)

\* sanitize_column_name(table_name).strip('"'), lines 63 and 106.
sanitized_table_name(name) == StripQuotes(sanitize_column_name(name))

\* A plausible slip: the table is left in place.
ExecDropNothing(view, name) == view

\* DROP TABLE IF EXISTS name, line 66.
ExecDrop(view, name) ==
    [n \in StoreNames |-> IF n = name THEN NoTable ELSE view[n]]

\* Lines 70-74: the column definitions of the CREATE TABLE statement.
ColumnDefs(df) ==
    [i \in 1..Len(df.cols) |->
        [name |-> Unquoted(sanitize_column_name(df.cols[i].header)),
         type |-> infer_sql_type(df.cols[i].dtype)]]

\* CREATE TABLE accepts the statement: a valid table name that is not in
\* use, no zero-length column identifier, no column name twice.
CreateOk(view, name, cols) ==
    /\ ValidIdent(name)
    /\ name \in StoreNames
    /\ ~view[name].exists
    /\ \A i \in 1..Len(cols) : cols[i].name # <<>>
    /\ \A i, j \in 1..Len(cols) : cols[i].name = cols[j].name => i = j

\* CREATE TABLE name (cols), lines 76-77.
ExecCreate(view, name, cols) ==
    [n \in StoreNames |->
        IF n = name THEN [exists |-> TRUE, cols |-> cols, rows |-> <<>>]
        ELSE view[n]]

\* A plausible slip: conn.commit() where conn.rollback() is meant.
RollbackCommits(committed, view) == view

\* conn.rollback(), line 93: what is committed after it.
RollbackResult(committed, view) == committed

\* The DataFrame pd.read_sql builds from a result set.
FrameOf(table) ==
    [cols |-> [i \in 1..Len(table.cols) |-> table.cols[i].name],
     rows |-> table.rows]

\* pd.DataFrame(): no columns, no rows.
NoFrame == [cols |-> <<>>, rows |-> <<>>]

(***************************************************************************)
(* The query texts handed to get_data_by_filters: one or more statements   *)
(* about table t, separated by semicolons.  psycopg2 sends the text as one *)
(* simple query inside the transaction it opened; the server runs the      *)
(* statements in order and stops at the first error.  pandas builds the    *)
(* frame from the last statement's result set and raises when there is     *)
(* none.                                                                   *)
(***************************************************************************)
Statements == {"SELECT", "DELETE", "DROP", "COMMIT"}

Queries == BSeq(Statements, MaxStmts) \ {<<>>}

QueryTable == <<"t">>

\* `block` says whether the transaction psycopg2 opened is still open: an
\* explicit COMMIT ends it, and the statements after it run in an implicit
\* transaction that the server commits at the end of the text.
RECURSIVE RunQuery(_, _, _, _)
RunQuery(q, committed, view, block) ==
    IF q = <<>>
    THEN [ok |-> TRUE, view |-> view,
          committed |-> IF block THEN committed ELSE view]
    ELSE IF Head(q) = "COMMIT" THEN RunQuery(Tail(q), view, view, FALSE)
    ELSE IF ~view[QueryTable].exists
    THEN [ok |-> FALSE, view |-> view, committed |-> committed]
    ELSE IF Head(q) = "SELECT" THEN RunQuery(Tail(q), committed, view, block)
    ELSE IF Head(q) = "DELETE"
    THEN RunQuery(Tail(q), committed,
                  [view EXCEPT ![QueryTable].rows = <<>>], block)
    ELSE RunQuery(Tail(q), committed,
                  [view EXCEPT ![QueryTable] = NoTable], block)

\* pd.read_sql(query, conn), line 122: the frame, or the error it raises,
\* and what the text has committed.
QueryResult(q, committed) ==
    LET r == RunQuery(q, committed, committed, TRUE)
    IN [ok |-> r.ok /\ q[Len(q)] = "SELECT",
        frame |-> IF r.ok /\ q[Len(q)] = "SELECT"
                  THEN FrameOf(r.view[QueryTable]) ELSE NoFrame,
        committed |-> r.committed,
        view |-> r.view]

(***************************************************************************)
(* The calls.  Each thread runs one public function at a time, statement   *)
(* by statement.  Every statement sent to the server may fail (the server  *)
(* or the network is gone) besides the failures its own text causes.       *)
(***************************************************************************)
Threads == {"w", "r"}

NoArg == [name |-> <<>>, df |-> NoDf, query |-> <<>>]

NoTxn == [active |-> FALSE, view |-> EmptyDb]

NoRet == [kind |-> "none", ok |-> FALSE, frame |-> NoFrame]

RetBool(b) == [kind |-> "bool", ok |-> b, frame |-> NoFrame]

RetFrame(f) == [kind |-> "frame", ok |-> FALSE, frame |-> f]

\* An exception leaves the function.
RetRaise == [kind |-> "raise", ok |-> FALSE, frame |-> NoFrame]

NoLast == [op |-> "none", arg |-> NoArg, ret |-> NoRet]

\* What the thread's connection sees: its own uncommitted changes if it has
\* a transaction open, else what is committed.
Visible(t) == IF txn[t].active THEN txn[t].view ELSE db

TableOf(t) == sanitized_table_name(arg[t].name)

\* A call starts.  The history variables record the database and, for a
\* get_all_data that follows an ingestion, that ingestion.
Begin(t, o, a) ==
    /\ pc[t] = "idle"
    /\ openConns < MaxOpenConns
    /\ pc' = [pc EXCEPT ![t] = "connect"]
    /\ op' = [op EXCEPT ![t] = o]
    /\ arg' = [arg EXCEPT ![t] = a]
    /\ conn' = [conn EXCEPT ![t] = "none"]
    /\ cursor' = [cursor EXCEPT ![t] = "unbound"]
    /\ txn' = [txn EXCEPT ![t] = NoTxn]
    /\ todo' = [todo EXCEPT ![t] = <<>>]
    /\ ret' = [ret EXCEPT ![t] = NoRet]
    /\ failedAt' = [failedAt EXCEPT ![t] = "none"]
    /\ prior' = [prior EXCEPT ![t] = db]
    /\ last' = IF o = "get_all_data" THEN last ELSE NoLast
    /\ UNCHANGED <<db, openConns, fnIn, fnOut, mIn, mOut>>

CallIngest(t) ==
    \E n \in TableNames, d \in Datasets :
        Begin(t, "ingest_csv_data", [NoArg EXCEPT !.name = n, !.df = d])

CallGetAll(t) ==
    \E n \in TableNames : Begin(t, "get_all_data", [NoArg EXCEPT !.name = n])

CallGetByFilters(t) ==
    \E q \in Queries :
        Begin(t, "get_data_by_filters", [NoArg EXCEPT !.query = q])

\* The thread moves to statement `to`; with `why`, a statement has raised.
Goto(t, to) == pc' = [pc EXCEPT ![t] = to]

Raise(t) ==
    /\ failedAt' = [failedAt EXCEPT ![t] = pc[t]]
    /\ pc' = [pc EXCEPT ![t] = "except"]

\* get_db_connection, lines 16-29, and the `if conn is None` of its callers
\* (lines 59, 103, 119).
Connect(t) ==
    /\ pc[t] = "connect"
    /\ \/ /\ conn' = [conn EXCEPT ![t] = "open"]
          /\ openConns' = openConns + 1
          /\ Goto(t, IF op[t] = "ingest_csv_data" THEN "cursor" ELSE "read_sql")
          /\ UNCHANGED <<ret, failedAt>>
       \/ /\ ret' = [ret EXCEPT ![t] = IF op[t] = "ingest_csv_data"
                                       THEN RetBool(FALSE) ELSE RetFrame(NoFrame)]
          /\ failedAt' = [failedAt EXCEPT ![t] = "connect"]
          /\ Goto(t, "done")
          /\ UNCHANGED <<conn, openConns>>
    /\ UNCHANGED <<db, op, arg, cursor, txn, todo, prior, last,
                   fnIn, fnOut, mIn, mOut>>

\* cursor = conn.cursor(), line 62.
IngestCursor(t) ==
    /\ pc[t] = "cursor"
    /\ \/ /\ cursor' = [cursor EXCEPT ![t] = "open"]
          /\ Goto(t, "drop")
          /\ UNCHANGED failedAt
       \/ /\ Raise(t)
          /\ UNCHANGED cursor
    /\ UNCHANGED <<db, op, arg, conn, txn, todo, ret, prior, last, openConns,
                   fnIn, fnOut, mIn, mOut>>

\* cursor.execute("DROP TABLE IF EXISTS ..."), lines 63-66.
IngestDrop(t) ==
    /\ pc[t] = "drop"
    /\ \/ /\ ValidIdent(TableOf(t))
          /\ txn' = [txn EXCEPT ![t] =
                        [active |-> TRUE,
                         view |-> ExecDrop(Visible(t), TableOf(t))]]
          /\ Goto(t, "commit_drop")
          /\ UNCHANGED failedAt
       \/ /\ txn' = [txn EXCEPT ![t] = [active |-> TRUE, view |-> Visible(t)]]
          /\ Raise(t)
    /\ UNCHANGED <<db, op, arg, conn, cursor, todo, ret, prior, last,
                   openConns, fnIn, fnOut, mIn, mOut>>

\* The statement after each conn.commit() of ingest_csv_data.
AfterCommit(at) ==
    CASE at = "commit_drop" -> "create"
      [] at = "commit_create" -> "to_csv"
      [] OTHER -> "finally"

\* conn.commit(), lines 67, 78 and 88; after the last one, return True.
IngestCommit(t) ==
    /\ pc[t] \in {"commit_drop", "commit_create", "commit_copy"}
    /\ \/ /\ db' = Visible(t)
          /\ txn' = [txn EXCEPT ![t] = NoTxn]
          /\ ret' = [ret EXCEPT ![t] = IF pc[t] = "commit_copy"
                                       THEN RetBool(TRUE) ELSE ret[t]]
          /\ Goto(t, AfterCommit(pc[t]))
          /\ UNCHANGED failedAt
       \/ /\ Raise(t)
          /\ UNCHANGED <<db, txn, ret>>
    /\ UNCHANGED <<op, arg, conn, cursor, todo, prior, last, openConns,
                   fnIn, fnOut, mIn, mOut>>

\* Lines 70-77: the schema is built and CREATE TABLE is executed.
IngestCreate(t) ==
    /\ pc[t] = "create"
    /\ \/ /\ CreateOk(Visible(t), TableOf(t), ColumnDefs(arg[t].df))
          /\ txn' = [txn EXCEPT ![t] =
                        [active |-> TRUE,
                         view |-> ExecCreate(Visible(t), TableOf(t),
                                             ColumnDefs(arg[t].df))]]
          /\ Goto(t, "commit_create")
          /\ UNCHANGED failedAt
       \/ /\ txn' = [txn EXCEPT ![t] = [active |-> TRUE, view |-> Visible(t)]]
          /\ Raise(t)
    /\ UNCHANGED <<db, op, arg, conn, cursor, todo, ret, prior, last,
                   openConns, fnIn, fnOut, mIn, mOut>>

\* Lines 81-85: the frame is written to the buffer.
IngestToCsv(t) ==
    /\ pc[t] = "to_csv"
    /\ todo' = [todo EXCEPT ![t] = to_csv(arg[t].df)]
    /\ Goto(t, "copy")
    /\ UNCHANGED <<db, op, arg, conn, cursor, txn, ret, failedAt, prior, last,
                   openConns, fnIn, fnOut, mIn, mOut>>

\* cursor.copy_from, line 87: the server loads the stream record by record
\* inside one transaction.
IngestCopy(t) ==
    /\ pc[t] = "copy"
    /\ LET view == Visible(t)
           table == view[TableOf(t)]
           step == CopyStep(table.cols, table.rows, FirstLine(todo[t]))
       IN \/ /\ todo[t] = <<>>
             /\ txn' = [txn EXCEPT ![t] = [active |-> TRUE, view |-> view]]
             /\ Goto(t, "commit_copy")
             /\ UNCHANGED <<todo, failedAt>>
          \/ /\ todo[t] # <<>>
             /\ step.ok
             /\ txn' = [txn EXCEPT ![t] =
                           [active |-> TRUE,
                            view |-> [view EXCEPT
                                        ![TableOf(t)].rows = step.rows]]]
             /\ todo' = [todo EXCEPT ![t] = RestLines(todo[t])]
             /\ UNCHANGED <<pc, failedAt>>
          \/ /\ txn' = [txn EXCEPT ![t] = [active |-> TRUE, view |-> view]]
             /\ Raise(t)
             /\ UNCHANGED todo
    /\ UNCHANGED <<db, op, arg, conn, cursor, ret, prior, last, openConns,
                   fnIn, fnOut, mIn, mOut>>

\* except Exception: conn.rollback(); return False, lines 92-95.  When the
\* rollback itself raises, that exception leaves the function.
IngestExcept(t) ==
    /\ pc[t] = "except"
    /\ \/ /\ db' = RollbackResult(db, Visible(t))
          /\ txn' = [txn EXCEPT ![t] = NoTxn]
          /\ ret' = [ret EXCEPT ![t] = RetBool(FALSE)]
       \/ /\ ret' = [ret EXCEPT ![t] = RetRaise]
          /\ UNCHANGED <<db, txn>>
    /\ Goto(t, "finally")
    /\ UNCHANGED <<op, arg, conn, cursor, todo, failedAt, prior, last,
                   openConns, fnIn, fnOut, mIn, mOut>>

\* finally: if conn: cursor.close(); conn.close(), lines 96-97.  With
\* `cursor` unbound the first statement raises UnboundLocalError, and an
\* exception of cursor.close() skips conn.close() as well.  Closing the
\* connection discards its open transaction.
IngestFinally(t) ==
    /\ pc[t] = "finally"
    /\ op[t] = "ingest_csv_data"
    /\ \/ /\ cursor[t] = "unbound"
          /\ ret' = [ret EXCEPT ![t] = RetRaise]
          /\ UNCHANGED <<cursor, conn, openConns, txn>>
       \/ /\ cursor[t] = "open"
          /\ ret' = [ret EXCEPT ![t] = RetRaise]
          /\ UNCHANGED <<cursor, conn, openConns, txn>>
       \/ /\ cursor[t] = "open"
          /\ cursor' = [cursor EXCEPT ![t] = "closed"]
          /\ conn' = [conn EXCEPT ![t] = "closed"]
          /\ openConns' = openConns - 1
          /\ txn' = [txn EXCEPT ![t] = NoTxn]
          /\ UNCHANGED ret
    /\ Goto(t, "done")
    /\ UNCHANGED <<db, op, arg, todo, failedAt, prior, last,
                   fnIn, fnOut, mIn, mOut>>

\* get_all_data, lines 105-112: SELECT * FROM the sanitized name.
ReadAll(t) ==
    /\ pc[t] = "read_sql"
    /\ op[t] = "get_all_data"
    /\ \/ /\ ValidIdent(TableOf(t))
          /\ TableOf(t) \in StoreNames
          /\ db[TableOf(t)].exists
          /\ ret' = [ret EXCEPT ![t] = RetFrame(FrameOf(db[TableOf(t)]))]
          /\ UNCHANGED failedAt
       \/ /\ ret' = [ret EXCEPT ![t] = RetFrame(NoFrame)]
          /\ failedAt' = [failedAt EXCEPT ![t] = "read_sql"]
    /\ txn' = [txn EXCEPT ![t] = [active |-> TRUE, view |-> db]]
    /\ Goto(t, "finally")
    /\ UNCHANGED <<db, op, arg, conn, cursor, todo, prior, last, openConns,
                   fnIn, fnOut, mIn, mOut>>

\* get_data_by_filters, lines 121-126: the caller's text is executed.
ReadFiltered(t) ==
    /\ pc[t] = "read_sql"
    /\ op[t] = "get_data_by_filters"
    /\ LET r == QueryResult(arg[t].query, db)
       IN \/ /\ db' = r.committed
             /\ ret' = [ret EXCEPT ![t] = RetFrame(r.frame)]
             /\ failedAt' = [failedAt EXCEPT ![t] =
                                IF r.ok THEN "none" ELSE "read_sql"]
             /\ txn' = [txn EXCEPT ![t] = [active |-> TRUE, view |-> r.view]]
          \/ /\ ret' = [ret EXCEPT ![t] = RetFrame(NoFrame)]
             /\ failedAt' = [failedAt EXCEPT ![t] = "read_sql"]
             /\ txn' = [txn EXCEPT ![t] = [active |-> TRUE, view |-> db]]
             /\ UNCHANGED db
    /\ Goto(t, "finally")
    /\ UNCHANGED <<op, arg, conn, cursor, todo, prior, last, openConns,
                   fnIn, fnOut, mIn, mOut>>

\* finally: if conn: conn.close(), lines 113-114 and 127-128.
ReadFinally(t) ==
    /\ pc[t] = "finally"
    /\ op[t] # "ingest_csv_data"
    /\ conn' = [conn EXCEPT ![t] = "closed"]
    /\ openConns' = openConns - 1
    /\ txn' = [txn EXCEPT ![t] = NoTxn]
    /\ Goto(t, "done")
    /\ UNCHANGED <<db, op, arg, cursor, todo, ret, failedAt, prior, last,
                   fnIn, fnOut, mIn, mOut>>

\* The call is over: its locals are gone.  A connection it left open stays
\* open on the server.
Return(t) ==
    /\ pc[t] = "done"
    /\ last' = IF op[t] = "ingest_csv_data"
               THEN [op |-> op[t], arg |-> arg[t], ret |-> ret[t]]
               ELSE NoLast
    /\ pc' = [pc EXCEPT ![t] = "idle"]
    /\ op' = [op EXCEPT ![t] = "none"]
    /\ arg' = [arg EXCEPT ![t] = NoArg]
    /\ conn' = [conn EXCEPT ![t] = "none"]
    /\ cursor' = [cursor EXCEPT ![t] = "unbound"]
    /\ txn' = [txn EXCEPT ![t] = NoTxn]
    /\ todo' = [todo EXCEPT ![t] = <<>>]
    /\ ret' = [ret EXCEPT ![t] = NoRet]
    /\ failedAt' = [failedAt EXCEPT ![t] = "none"]
    /\ prior' = [prior EXCEPT ![t] = db]
    /\ UNCHANGED <<db, openConns, fnIn, fnOut, mIn, mOut>>

\* The table an ingestion of `d` loads.
LoadedTable(d) ==
    [exists |-> TRUE, cols |-> ColumnDefs(d), rows |-> CopyRecords(to_csv(d))]

StoreInit(tables) ==
    /\ db \in [StoreNames -> tables]
    /\ pc = [t \in Threads |-> "idle"]
    /\ op = [t \in Threads |-> "none"]
    /\ arg = [t \in Threads |-> NoArg]
    /\ conn = [t \in Threads |-> "none"]
    /\ cursor = [t \in Threads |-> "unbound"]
    /\ txn = [t \in Threads |-> NoTxn]
    /\ todo = [t \in Threads |-> <<>>]
    /\ ret = [t \in Threads |-> NoRet]
    /\ failedAt = [t \in Threads |-> "none"]
    /\ prior = [t \in Threads |-> db]
    /\ last = NoLast
    /\ openConns = 0

(***************************************************************************)
(* The inputs of the sanitizer, and the variables a specification leaves   *)
(* alone.                                                                  *)
(***************************************************************************)
NameChars == {"a", "A", " ", "!", "_", "1", QUOTE}

Names == BSeq(NameChars, MaxNameLen)

NoOutput == <<"?">>

MetricsIdle == mIn = [columns |-> {}, rows |-> <<>>] /\ mOut = NoMetrics

SanIdle == fnIn = <<>> /\ fnOut = NoOutput

StoreIdle == StoreInit({NoTable})

(***************************************************************************)
(* The calls made one after another by a single thread, as the dashboard   *)
(* makes them.  The database starts empty.                                 *)
(***************************************************************************)
Init ==
    /\ StoreInit({NoTable})
    /\ SanIdle
    /\ MetricsIdle

Next ==
    \/ CallIngest("w")
    \/ CallGetAll("w")
    \/ CallGetByFilters("w")
    \/ Connect("w")
    \/ IngestCursor("w")
    \/ IngestDrop("w")
    \/ IngestCommit("w")
    \/ IngestCreate("w")
    \/ IngestToCsv("w")
    \/ IngestCopy("w")
    \/ IngestExcept("w")
    \/ IngestFinally("w")
    \/ ReadAll("w")
    \/ ReadFiltered("w")
    \/ ReadFinally("w")
    \/ Return("w")

Spec == Init /\ [][Next]_vars

(***************************************************************************)
(* One ingestion into a table that holds rows, with a second thread that   *)
(* keeps calling get_all_data.                                             *)
(***************************************************************************)
OldTable ==
    [exists |-> TRUE, cols |-> <<[name |-> <<"a">>, type |-> "TEXT"]>>,
     rows |-> << <<<<"y">>>>, <<<<"y">>>> >>]

InitConc ==
    /\ StoreInit({OldTable})
    /\ SanIdle
    /\ MetricsIdle

\* The thread of the ingestion stays where ingest_csv_data ends.
NextConc ==
    \/ CallIngest("w")
    \/ CallGetAll("r")
    \/ Connect("w")
    \/ Connect("r")
    \/ IngestCursor("w")
    \/ IngestDrop("w")
    \/ IngestCommit("w")
    \/ IngestCreate("w")
    \/ IngestToCsv("w")
    \/ IngestCopy("w")
    \/ IngestExcept("w")
    \/ IngestFinally("w")
    \/ ReadAll("r")
    \/ ReadFinally("r")
    \/ Return("r")

SpecConc == InitConc /\ [][NextConc]_vars

(***************************************************************************)
(* The sanitizer applied to every name over a small alphabet.              *)
(***************************************************************************)
InitSan ==
    /\ StoreIdle
    /\ MetricsIdle
    /\ fnIn \in Names
    /\ fnOut = NoOutput

Sanitize ==
    /\ fnOut = NoOutput
    /\ fnOut' = sanitize_column_name(fnIn)
    /\ UNCHANGED <<storeVars, fnIn, mIn, mOut>>

NextSan == Sanitize

SpecSan == InitSan /\ [][NextSan]_vars

(***************************************************************************)
(* The metrics functions applied to every small DataFrame.                 *)
(***************************************************************************)
InitMetrics ==
    /\ StoreIdle
    /\ SanIdle
    /\ mIn \in MetricDatasets
    /\ mOut = NoMetrics

KeyMetrics ==
    /\ mOut.fn = "none"
    /\ mOut' = get_key_metrics(mIn)
    /\ UNCHANGED <<storeVars, fnIn, fnOut, mIn>>

BusinessInsights ==
    /\ mOut.fn = "none"
    /\ mOut' = get_business_insights(mIn)
    /\ UNCHANGED <<storeVars, fnIn, fnOut, mIn>>

NextMetrics == KeyMetrics \/ BusinessInsights

SpecMetrics == InitMetrics /\ [][NextMetrics]_vars

(***************************************************************************)
(* Claims about the sanitizer and the metrics functions.                   *)
(***************************************************************************)
OnlyAllowed(s) == \A i \in 1..Len(s) : s[i] \in AllowedChars

\* C9: for every input, the sanitizer's output with the identifier quotes
\* removed is a non-empty string over [a-z0-9_].
C9_SanitizedNonEmptyAllowed ==
    fnOut # NoOutput =>
        /\ StripQuotes(fnOut) # <<>>
        /\ OnlyAllowed(StripQuotes(fnOut))

\* The customers whose most recent purchase is more than 365 days before
\* the latest purchase of the dataset.
LapsedCustomers(df) ==
    LET latest == SetMax(Col(df, "purchase_date"))
        LastOf(c) == SetMax({df.rows[i]["purchase_date"] : i \in RowsOf(df, c)})
    IN {c \in Col(df, "customer_id") : LastOf(c) < latest - ChurnWindowDays}

\* C7: the churn count of computeKpis is the number of customers whose most
\* recent purchase is more than 365 days before the latest date, and the
\* churn rate is that count over the number of customers, times 100.
C7_ChurnCountsLapsedCustomers ==
    mOut.kind = "metrics" =>
        /\ mOut.churned = Cardinality(LapsedCustomers(mIn))
        /\ mOut.Churn_Rate =
               <<Cardinality(LapsedCustomers(mIn)) * 100,
                 Cardinality(Col(mIn, "customer_id"))>>

\* C8 as stated: for both functions and every dataset, zero rows included,
\* that lacks a required column, the call signals the missing column.
C8_MissingColumnAlwaysSignalled ==
    (mOut.fn # "none" /\ ~(Required \subseteq mIn.columns)) =>
        mOut.kind = "KeyError"

\* C8 as amended: a dataset with no rows or no columns gets the defaults
\* whatever its columns; a non-empty one gets KeyError from get_key_metrics
\* exactly when one of the three columns is absent and from
\* get_business_insights exactly when customer_id or purchase_amount is.
C8_MissingColumnSignalledWhenNonEmpty ==
    LET NoData == Len(mIn.rows) = 0 \/ mIn.columns = {}
    IN
    /\ (mOut.fn = "get_key_metrics" /\ NoData) => mOut.kind = "defaults"
    /\ (mOut.fn = "get_business_insights" /\ NoData) => mOut.kind = "empty"
    /\ (mOut.fn = "get_key_metrics" /\ ~NoData) =>
           (mOut.kind = "KeyError" <=> ~(Required \subseteq mIn.columns))
    /\ (mOut.fn = "get_business_insights" /\ ~NoData) =>
           (mOut.kind = "KeyError" <=>
               ~({"customer_id", "purchase_amount"} \subseteq mIn.columns))
    /\ mOut.kind = "KeyError" => mOut.key \in Required \ mIn.columns

\* A non-empty dataset without purchase_date has reached get_key_metrics.
C8_Witness ==
    /\ mOut.fn = "get_key_metrics"
    /\ Len(mIn.rows) > 0
    /\ mIn.columns = {"customer_id", "purchase_amount"}
    /\ mOut.kind = "KeyError"

(***************************************************************************)
(* Claims about the calls made one after another (Spec).                   *)
(***************************************************************************)
Returned(t, o) == pc[t] = "done" /\ op[t] = o

SanitizedHeaders(d) ==
    [i \in 1..Len(d.cols) |-> CleanName(d.cols[i].header)]

\* C1: a get_all_data that follows a successful ingest_csv_data of D into
\* the same table name, and whose query succeeds, returns as many rows as D
\* has, under the sanitized column names of D.
C1_FetchAfterIngestReturnsDataset ==
    ( /\ Returned("w", "get_all_data")
      /\ failedAt["w"] = "none"
      /\ last.op = "ingest_csv_data"
      /\ last.ret = RetBool(TRUE)
      /\ sanitized_table_name(last.arg.name) = TableOf("w") )
    => /\ Len(ret["w"].frame.rows) = Len(last.arg.df.rows)
       /\ ret["w"].frame.cols = SanitizedHeaders(last.arg.df)

\* C2: whatever fails during the load, the committed rows of a table are
\* never a part of a load: a table holds what it held when the call
\* started, no rows, or every record of the running ingestion's stream.
C2_LoadIsAllOrNothing ==
    \A n \in StoreNames :
        \/ db[n] = prior["w"][n]
        \/ db[n].rows = <<>>
        \/ /\ op["w"] = "ingest_csv_data"
           /\ db[n].rows = CopyRecords(to_csv(arg["w"].df))

\* The load has raised after at least one record was loaded, the rollback
\* has run, and the committed table has no rows.
C2_Witness ==
    /\ pc["w"] = "finally"
    /\ failedAt["w"] = "copy"
    /\ ret["w"] = RetBool(FALSE)
    /\ Len(todo["w"]) < Len(to_csv(arg["w"].df))
    /\ db[TableOf("w")].exists
    /\ db[TableOf("w")].rows = <<>>

\* C3: a failed ingestion leaves what it had committed and restores
\* nothing: before the DROP is committed the database is as the call found
\* it; from then until the CREATE is committed the table is absent; after
\* that the table has the new column definitions and no rows.
C3_FailureKeepsCommittedSteps ==
    LET t == "w"
        n == TableOf(t)
    IN (op[t] = "ingest_csv_data" /\ failedAt[t] # "none") =>
        /\ failedAt[t] \in {"connect", "cursor", "drop", "commit_drop"} =>
               db = prior[t]
        /\ failedAt[t] \in {"create", "commit_create"} =>
               db = [prior[t] EXCEPT ![n] = NoTable]
        /\ failedAt[t] \in {"copy", "commit_copy"} =>
               db = [prior[t] EXCEPT
                       ![n] = [exists |-> TRUE,
                               cols |-> ColumnDefs(arg[t].df),
                               rows |-> <<>>]]

\* An ingestion into a table that held rows has failed at CREATE and
\* returned False: the table is gone.
C3_Witness ==
    /\ Returned("w", "ingest_csv_data")
    /\ failedAt["w"] = "create"
    /\ ret["w"] = RetBool(FALSE)
    /\ prior["w"][TableOf("w")].rows # <<>>
    /\ ~db[TableOf("w")].exists

\* C4: no call raises: a failed ingest_csv_data returns False and a failed
\* read returns the empty DataFrame.
C4_NoErrorEscapes ==
    \A t \in Threads :
        pc[t] = "done" =>
            /\ ret[t].kind # "raise"
            /\ failedAt[t] # "none" =>
                   ret[t] \in {RetBool(FALSE), RetFrame(NoFrame)}

\* C5: a call that has ended has closed the connection it acquired, and no
\* connection is open between calls.
C5_ConnectionReleased ==
    /\ \A t \in Threads : pc[t] = "done" => conn[t] # "open"
    /\ (\A t \in Threads : pc[t] = "idle") => openConns = 0

\* C6: get_all_data and get_data_by_filters leave every table as it was.
C6_ReadsDoNotMutate ==
    \A t \in Threads :
        (pc[t] = "done" /\ op[t] \in {"get_all_data", "get_data_by_filters"})
            => db = prior[t]

(***************************************************************************)
(* Claim about a read that runs while a table is being replaced (SpecConc).*)
(***************************************************************************)
\* C10: whatever the interleaving, a get_all_data that runs beside the
\* ingestion returns the whole old table, an empty frame, or every record
\* the ingestion loads under the new column names; never old rows with new
\* ones and never a part of the load.
C10_ReaderSeesWholeTables ==
    ret["r"].kind = "frame" =>
        \/ ret["r"].frame = FrameOf(OldTable)
        \/ ret["r"].frame = NoFrame
        \/ /\ op["w"] = "ingest_csv_data"
           /\ ret["r"].frame.cols = SanitizedHeaders(arg["w"].df)
           /\ ret["r"].frame.rows
                  \in {<<>>, LoadedTable(arg["w"].df).rows}

\* The reader's query succeeded on the table that was created and not yet
\* loaded, and returned no rows, while the ingestion has records loaded in
\* its open transaction.
C10_Witness ==
    /\ pc["w"] \in {"copy", "commit_copy"}
    /\ Len(txn["w"].view[TableOf("w")].rows) > 0
    /\ Returned("r", "get_all_data")
    /\ failedAt["r"] = "none"
    /\ ret["r"].frame.rows = <<>>
    /\ ret["r"].frame.cols = SanitizedHeaders(arg["w"].df)

\* The reader found the table absent, between the DROP and the CREATE, and
\* returned the empty DataFrame.
C10_WitnessAbsent ==
    /\ pc["w"] \in {"create", "commit_create"}
    /\ Returned("r", "get_all_data")
    /\ TableOf("r") = TableOf("w")
    /\ failedAt["r"] = "read_sql"
    /\ ret["r"].frame = NoFrame
    /\ ~db[TableOf("r")].exists

====
